---- MODULE Spec2Model ----
(***************************************************************************)
(* Model of the paper-trading portfolio ledger (src/state_manager.py) and  *)
(* of the daily decision loop that drives it (src/decision_engine.py).     *)
(*                                                                         *)
(* Amounts, prices, quantities and rates are exact rationals n/d (the      *)
(* Python code computes them in binary floating point; rounding of the     *)
(* last bit is not modelled).  A process is followed statement by          *)
(* statement through _save, so that an interruption can fall between the   *)
(* write of the staging file and the replace of the durable file.          *)
(***************************************************************************)
EXTENDS Integers, Sequences, FiniteSets, TLC

VARIABLES
    pc,         \* position of the running process ("down": no process)
    state,      \* the dict self.state / state_dict of the running process
    disk,       \* content of self.filename, the durable record
    tmp,        \* content of self.filename + ".tmp", the staging file
    now,        \* the instant datetime.now() returns
    call,       \* the ledger call in progress or last returned, with its arguments
    pre,        \* state and files at the entry of that call
    ret,        \* what that call returned: "none" (not yet), "True", "False",
                \* or "raise" when an exception left it
    lastSaved,  \* the state_dict handed to the last _save that reached os.replace
    bigFee,     \* some call passed a fee_rate above 1
    ops,        \* ledger calls accepted so far
    market,     \* market_data of the current decision cycle
    phase,      \* pass of run_daily_execution: "none", "exit", "entry"
    idx,        \* index of the asset the pass is at
    cycle,      \* decision cycles started so far
    log,        \* the ledger calls the current decision cycle has made
    audit       \* the books kept beside the ledger: the capital it started
                \* with, the entry fees it paid and whether a buy replaced a
                \* position, for the state in memory (mem) and for the
                \* durable record (saved)

vars == <<pc, state, disk, tmp, now, call, pre, ret, lastSaved, bigFee, ops,
          market, phase, idx, cycle, log, audit>>

----------------------------------------------------------------------------
(* Exact rational arithmetic: [n |-> numerator, d |-> denominator > 0],    *)
(* always in lowest terms.                                                 *)

Abs(x) == IF x < 0 THEN -x ELSE x

RECURSIVE GCD(_, _)
GCD(a, b) == IF b = 0 THEN a ELSE GCD(b, a % b)

Norm(n, d) ==
    LET g == GCD(Abs(n), Abs(d))
        s == IF d < 0 THEN -1 ELSE 1
    IN  [n |-> s * (n \div g), d |-> s * (d \div g)]

R(i) == [n |-> i, d |-> 1]

Q(n, d) == Norm(n, d)

RNeg(x) == [n |-> -x.n, d |-> x.d]

RAdd(x, y) ==
    LET g == GCD(x.d, y.d)
    IN  Norm(x.n * (y.d \div g) + y.n * (x.d \div g), (x.d \div g) * y.d)

RSub(x, y) == RAdd(x, RNeg(y))

RMul(x, y) ==
    LET g1 == GCD(Abs(x.n), y.d)
        g2 == GCD(Abs(y.n), x.d)
    IN  Norm((x.n \div g1) * (y.n \div g2), (x.d \div g2) * (y.d \div g1))

RDiv(x, y) == RMul(x, Norm(y.d, y.n))

RLt(x, y) == RSub(x, y).n < 0

RGt(x, y) == RLt(y, x)

RGe(x, y) == ~RLt(x, y)

\* Mutation: the cash cap is left out, the risk-sized quantity is kept.
RFirst(x, y) == x

RMin(x, y) == IF RLt(y, x) THEN y ELSE x

----------------------------------------------------------------------------
(* Bounds of the model and inputs of the callers.                          *)

MaxOps == 3

MaxCycles == 2

MaxClock == 1

LedgerAssets == {"BTC-USD", "ETH-USD"}

Prices == {R(1), R(2)}

Qtys == {R(2)}

FeeRates == {R(0), Q(1, 2), R(1), R(2)}

InitialCapitals == {R(0), R(8)}

----------------------------------------------------------------------------
(* The portfolio state and the two files.                                  *)

EmptyPositions == [a \in {} |-> 0]

NoState == [cash |-> R(0), positions |-> EmptyPositions, history |-> <<>>,
            last_updated |-> -1]

\* A file is absent, half written, not parsable, or a JSON text.
Absent == [kind |-> "absent", text |-> <<>>]

Partial == [kind |-> "partial", text |-> <<>>]

Garbage == [kind |-> "garbage", text |-> <<>>]

\* The tokens json.dump writes for a float and for a str.
JsonNumber(x) == <<"number", x.n, x.d>>

JsonString(s) == <<"string", s>>

\* A JSON object is the sequence of its members <<key, value>>.
\* The keys of a dict, one after the other.
RECURSIVE KeySeq(_)
KeySeq(S) ==
    IF S = {} THEN <<>>
    ELSE LET k == CHOOSE x \in S : TRUE IN <<k>> \o KeySeq(S \ {k})

Keys(obj) == {obj[i][1] : i \in 1..Len(obj)}

Member(obj, key) == obj[CHOOSE i \in 1..Len(obj) : obj[i][1] = key][2]

ParseNumber(v) == [n |-> v[2], d |-> v[3]]

ParseString(v) == v[2]

\* json.dump(state_dict, f, indent=4): the text of the state
json_dump(st) ==
    LET held == KeySeq(DOMAIN st.positions)
        position(a) ==
            << <<"qty", JsonNumber(st.positions[a].qty)>>,
               <<"entry_price", JsonNumber(st.positions[a].entry_price)>>,
               <<"entry_date", JsonString(st.positions[a].entry_date)>> >>
        trade(t) ==
            << <<"asset", JsonString(t.asset)>>,
               <<"entry_price", JsonNumber(t.entry_price)>>,
               <<"exit_price", JsonNumber(t.exit_price)>>,
               <<"pnl_net", JsonNumber(t.pnl_net)>>,
               <<"exit_date", JsonString(t.exit_date)>> >>
    IN  << <<"cash", JsonNumber(st.cash)>>,
           <<"positions",
             [i \in 1..Len(held) |-> <<held[i], position(held[i])>>]>>,
           <<"history", [i \in 1..Len(st.history) |-> trade(st.history[i])]>>,
           <<"last_updated", JsonString(st.last_updated)>> >>

\* json.load(f): the dict of a text that parses
json_load(text) ==
    LET positions == Member(text, "positions")
        history == Member(text, "history")
        position(obj) ==
            [qty |-> ParseNumber(Member(obj, "qty")),
             entry_price |-> ParseNumber(Member(obj, "entry_price")),
             entry_date |-> ParseString(Member(obj, "entry_date"))]
        trade(obj) ==
            [asset |-> ParseString(Member(obj, "asset")),
             entry_price |-> ParseNumber(Member(obj, "entry_price")),
             exit_price |-> ParseNumber(Member(obj, "exit_price")),
             pnl_net |-> ParseNumber(Member(obj, "pnl_net")),
             exit_date |-> ParseString(Member(obj, "exit_date"))]
    IN  [cash |-> ParseNumber(Member(text, "cash")),
         positions |-> [a \in Keys(positions) |-> position(Member(positions, a))],
         history |-> [i \in 1..Len(history) |-> trade(history[i])],
         last_updated |-> ParseString(Member(text, "last_updated"))]

Json(st) == [kind |-> "json", text |-> json_dump(st)]

\* The state a file holds, when it holds one.
Rec(f) == IF f.kind = "json" THEN json_load(f.text) ELSE NoState

\* The state_dict of the last _save that reached os.replace, if any.
NotSaved == [kind |-> "none", rec |-> NoState]

Saved(st) == [kind |-> "saved", rec |-> st]

NoCall == [op |-> "none", asset |-> "", price |-> R(0), qty |-> R(0),
           fee_rate |-> R(0)]

NoPre == [state |-> NoState, disk |-> Absent, tmp |-> Absent]

NoAudit == [initial |-> R(0), fees |-> R(0), clean |-> TRUE]

NoMarket == [a \in {} |-> 0]

get_cash(st) == st.cash

get_active_positions_count(st) == Cardinality(DOMAIN st.positions)

Held(st, asset) == asset \in DOMAIN st.positions

----------------------------------------------------------------------------
(* PortfolioManager: the in-memory bookkeeping of execute_buy and          *)
(* execute_sell (everything up to, not including, the call of _save).      *)

Put(positions, asset, position) ==
    [a \in (DOMAIN positions) \cup {asset} |->
        IF a = asset THEN position ELSE positions[a]]

Del(positions, asset) ==
    [a \in (DOMAIN positions) \ {asset} |-> positions[a]]

\* Mutation: the funds check compares the cost without the fee.
execute_buy_cost_check(st, asset, price, qty, fee_rate, t) ==
    LET cost == RMul(qty, price)
        fee == RMul(cost, fee_rate)
        total_deduction == RAdd(cost, fee)
    IN  IF RGt(cost, st.cash)
        THEN [ok |-> FALSE, state |-> st]
        ELSE [ok |-> TRUE,
              state |-> [st EXCEPT
                  !.cash = RSub(@, total_deduction),
                  !.positions = Put(@, asset,
                      [qty |-> qty, entry_price |-> price, entry_date |-> t])]]

\* Mutation: the cash is debited before the funds check.
execute_buy_debit_first(st, asset, price, qty, fee_rate, t) ==
    LET cost == RMul(qty, price)
        fee == RMul(cost, fee_rate)
        total_deduction == RAdd(cost, fee)
        debited == [st EXCEPT !.cash = RSub(@, total_deduction)]
    IN  IF RGt(total_deduction, st.cash)
        THEN [ok |-> FALSE, state |-> debited]
        ELSE [ok |-> TRUE,
              state |-> [debited EXCEPT
                  !.positions = Put(@, asset,
                      [qty |-> qty, entry_price |-> price, entry_date |-> t])]]

\* Mutation: a buy of a held asset adds to the lot instead of replacing it.
execute_buy_merge(st, asset, price, qty, fee_rate, t) ==
    LET cost == RMul(qty, price)
        fee == RMul(cost, fee_rate)
        total_deduction == RAdd(cost, fee)
        merged == IF Held(st, asset)
                  THEN RAdd(st.positions[asset].qty, qty) ELSE qty
    IN  IF RGt(total_deduction, st.cash)
        THEN [ok |-> FALSE, state |-> st]
        ELSE [ok |-> TRUE,
              state |-> [st EXCEPT
                  !.cash = RSub(@, total_deduction),
                  !.positions = Put(@, asset,
                      [qty |-> merged, entry_price |-> price, entry_date |-> t])]]

\* Mutation: a buy rebuilds the state dict with an empty history.
execute_buy_reset_history(st, asset, price, qty, fee_rate, t) ==
    LET cost == RMul(qty, price)
        fee == RMul(cost, fee_rate)
        total_deduction == RAdd(cost, fee)
    IN  IF RGt(total_deduction, st.cash)
        THEN [ok |-> FALSE, state |-> st]
        ELSE [ok |-> TRUE,
              state |-> [st EXCEPT
                  !.cash = RSub(@, total_deduction),
                  !.history = <<>>,
                  !.positions = Put(@, asset,
                      [qty |-> qty, entry_price |-> price, entry_date |-> t])]]

execute_buy(st, asset, price, qty, fee_rate, t) ==
    LET cost == RMul(qty, price)
        fee == RMul(cost, fee_rate)
        total_deduction == RAdd(cost, fee)
    IN  IF RGt(total_deduction, st.cash)
        THEN [ok |-> FALSE, state |-> st]
        ELSE [ok |-> TRUE,
              state |-> [st EXCEPT
                  !.cash = RSub(@, total_deduction),
                  !.positions = Put(@, asset,
                      [qty |-> qty, entry_price |-> price, entry_date |-> t])]]

\* Mutation: the cash is credited with the gross value, the fee forgotten.
execute_sell_gross(st, asset, price, fee_rate, t) ==
    IF ~Held(st, asset)
    THEN [ok |-> FALSE, state |-> st]
    ELSE LET position == st.positions[asset]
             qty == position.qty
             entry_price == position.entry_price
             gross_value == RMul(qty, price)
             fee == RMul(gross_value, fee_rate)
             net_value == RSub(gross_value, fee)
             pnl_net == RSub(net_value, RMul(qty, entry_price))
         IN  [ok |-> TRUE,
              state |-> [st EXCEPT
                  !.cash = RAdd(@, gross_value),
                  !.history = Append(@,
                      [asset |-> asset, entry_price |-> entry_price,
                       exit_price |-> price, pnl_net |-> pnl_net,
                       exit_date |-> t]),
                  !.positions = Del(@, asset)]]

\* Mutation: the PnL is taken against the entry price of one unit.
execute_sell_pnl_per_unit(st, asset, price, fee_rate, t) ==
    IF ~Held(st, asset)
    THEN [ok |-> FALSE, state |-> st]
    ELSE LET position == st.positions[asset]
             qty == position.qty
             entry_price == position.entry_price
             gross_value == RMul(qty, price)
             fee == RMul(gross_value, fee_rate)
             net_value == RSub(gross_value, fee)
             pnl_net == RSub(net_value, entry_price)
         IN  [ok |-> TRUE,
              state |-> [st EXCEPT
                  !.cash = RAdd(@, net_value),
                  !.history = Append(@,
                      [asset |-> asset, entry_price |-> entry_price,
                       exit_price |-> price, pnl_net |-> pnl_net,
                       exit_date |-> t]),
                  !.positions = Del(@, asset)]]

\* Mutation: the PnL is taken from the gross value, the exit fee forgotten.
execute_sell_pnl_gross(st, asset, price, fee_rate, t) ==
    IF ~Held(st, asset)
    THEN [ok |-> FALSE, state |-> st]
    ELSE LET position == st.positions[asset]
             qty == position.qty
             entry_price == position.entry_price
             gross_value == RMul(qty, price)
             fee == RMul(gross_value, fee_rate)
             net_value == RSub(gross_value, fee)
             pnl_net == RSub(gross_value, RMul(qty, entry_price))
         IN  [ok |-> TRUE,
              state |-> [st EXCEPT
                  !.cash = RAdd(@, net_value),
                  !.history = Append(@,
                      [asset |-> asset, entry_price |-> entry_price,
                       exit_price |-> price, pnl_net |-> pnl_net,
                       exit_date |-> t]),
                  !.positions = Del(@, asset)]]

\* Mutation: the PnL is taken against the cost of the entry with a fee on top.
execute_sell_pnl_after_entry_fee(st, asset, price, fee_rate, t) ==
    IF ~Held(st, asset)
    THEN [ok |-> FALSE, state |-> st]
    ELSE LET position == st.positions[asset]
             qty == position.qty
             entry_price == position.entry_price
             gross_value == RMul(qty, price)
             fee == RMul(gross_value, fee_rate)
             net_value == RSub(gross_value, fee)
             entry_cost == RMul(qty, entry_price)
             pnl_net == RSub(net_value,
                             RAdd(entry_cost, RMul(entry_cost, fee_rate)))
         IN  [ok |-> TRUE,
              state |-> [st EXCEPT
                  !.cash = RAdd(@, net_value),
                  !.history = Append(@,
                      [asset |-> asset, entry_price |-> entry_price,
                       exit_price |-> price, pnl_net |-> pnl_net,
                       exit_date |-> t]),
                  !.positions = Del(@, asset)]]

execute_sell(st, asset, price, fee_rate, t) ==
    IF ~Held(st, asset)
    THEN [ok |-> FALSE, state |-> st]
    ELSE LET position == st.positions[asset]
             qty == position.qty
             entry_price == position.entry_price
             gross_value == RMul(qty, price)
             fee == RMul(gross_value, fee_rate)
             net_value == RSub(gross_value, fee)
             pnl_net == RSub(net_value, RMul(qty, entry_price))
         IN  [ok |-> TRUE,
              state |-> [st EXCEPT
                  !.cash = RAdd(@, net_value),
                  !.history = Append(@,
                      [asset |-> asset, entry_price |-> entry_price,
                       exit_price |-> price, pnl_net |-> pnl_net,
                       exit_date |-> t]),
                  !.positions = Del(@, asset)]]

----------------------------------------------------------------------------
(* PortfolioManager: load and save.                                        *)

\* Mutation: a record that does not parse is replaced by a fresh portfolio.
load_or_reset(dsk, initial_capital, t) ==
    IF dsk.kind = "json"
    THEN [outcome |-> "loaded", state |-> json_load(dsk.text)]
    ELSE [outcome |-> "create",
          state |-> [cash |-> initial_capital, positions |-> EmptyPositions,
                     history |-> <<>>, last_updated |-> t]]

\* Mutation: a loaded state is stamped with the instant of the load.
load_or_create_restamped(dsk, initial_capital, t) ==
    IF dsk.kind # "absent"
    THEN IF dsk.kind = "json"
         THEN [outcome |-> "loaded",
               state |-> [json_load(dsk.text) EXCEPT !.last_updated = t]]
         ELSE [outcome |-> "fatal", state |-> NoState]
    ELSE [outcome |-> "create",
          state |-> [cash |-> initial_capital, positions |-> EmptyPositions,
                     history |-> <<>>, last_updated |-> t]]

load_or_create(dsk, initial_capital, t) ==
    IF dsk.kind # "absent"
    THEN IF dsk.kind = "json"
         THEN [outcome |-> "loaded", state |-> json_load(dsk.text)]
         ELSE [outcome |-> "fatal", state |-> NoState]
    ELSE [outcome |-> "create",
          state |-> [cash |-> initial_capital, positions |-> EmptyPositions,
                     history |-> <<>>, last_updated |-> t]]

\* Mutation: the state is written straight into self.filename.
open_target_file(fs, content) ==
    [durable |-> content, staging |-> fs.staging]

\* open(temp_file, 'w'): the staging file is truncated, then written.
open_temp_file(fs, content) ==
    [durable |-> fs.durable, staging |-> content]

\* Mutation: the replace is left out, the staging file stays beside the record.
os_replace_skipped(fs) == fs

\* os.replace(temp_file, self.filename)
os_replace(fs) ==
    [durable |-> fs.staging, staging |-> Absent]

Files == [durable |-> disk, staging |-> tmp]

Stopped == pc \in {"down", "fatal"}

\* Mutation: after a call of the exit pass the loop falls into the entry pass.
ResumeInEntryPass ==
    IF phase = "none" THEN "ready" ELSE IF phase = "exit" THEN "entry" ELSE phase

\* Where control goes when a ledger call returns to its caller.
ResumePc == IF phase = "none" THEN "ready" ELSE phase

ResumeIdx == IF phase = "none" THEN idx ELSE idx + 1

Init ==
    /\ pc = "down"
    /\ state = NoState
    /\ disk = Absent
    /\ tmp = Absent
    /\ now = 0
    /\ call = NoCall
    /\ pre = NoPre
    /\ ret = "none"
    /\ lastSaved = NotSaved
    /\ bigFee = FALSE
    /\ ops = 0
    /\ market = NoMarket
    /\ phase = "none"
    /\ idx = 0
    /\ cycle = 0
    /\ log = <<>>
    /\ audit = [mem |-> NoAudit, saved |-> NoAudit]

\* PortfolioManager.__init__: self.state = self._load_or_create()
Construct(initial_capital) ==
    /\ Stopped
    /\ LET r == load_or_create(disk, initial_capital, now)
       IN  /\ state' = r.state
           /\ pc' = CASE r.outcome = "loaded" -> "ready"
                      [] r.outcome = "fatal" -> "fatal"
                      [] OTHER -> "save_open"
           /\ call' = IF r.outcome = "create"
                      THEN [NoCall EXCEPT !.op = "init"] ELSE NoCall
    /\ pre' = NoPre
    /\ ret' = "none"
    /\ audit' = [audit EXCEPT !.mem =
                     IF disk.kind = "absent"
                     THEN [initial |-> initial_capital, fees |-> R(0),
                           clean |-> TRUE]
                     ELSE audit.saved]
    /\ UNCHANGED <<disk, tmp, now, lastSaved, bigFee, ops, market,
                   phase, idx, cycle, log>>

Start == \E c \in InitialCapitals : Construct(c)

\* _save, lines 35-39: stamp last_updated, open the staging file for writing
SaveOpen ==
    /\ pc = "save_open"
    /\ state' = [state EXCEPT !.last_updated = now]
    /\ LET fs == open_temp_file(Files, Partial)
       IN  disk' = fs.durable /\ tmp' = fs.staging
    /\ pc' = "save_dump"
    /\ UNCHANGED <<now, call, pre, ret, lastSaved, bigFee, ops, market,
                   phase, idx, cycle, log, audit>>

\* _save, line 40: json.dump completes and the with-block closes the file
SaveDump ==
    /\ pc = "save_dump"
    /\ LET fs == open_temp_file(Files, Json(state))
       IN  disk' = fs.durable /\ tmp' = fs.staging
    /\ pc' = "save_replace"
    /\ UNCHANGED <<state, now, call, pre, ret, lastSaved, bigFee, ops,
                   market, phase, idx, cycle, log, audit>>

\* _save, lines 43-44: the atomic replace, then self.state = state_dict
SaveReplace ==
    /\ pc = "save_replace"
    /\ LET fs == os_replace(Files)
       IN  disk' = fs.durable /\ tmp' = fs.staging
    /\ lastSaved' = Saved(state)
    /\ pc' = "save_done"
    /\ audit' = [audit EXCEPT !.saved = audit.mem]
    /\ UNCHANGED <<state, now, call, pre, ret, bigFee, ops, market,
                   phase, idx, cycle, log>>

\* _save returns; its caller returns True (line 75, line 110) or the state (line 31)
Return ==
    /\ pc = "save_done"
    /\ IF call.op = "init"
       THEN pc' = "ready" /\ ret' = "none" /\ idx' = idx
       ELSE pc' = ResumePc /\ ret' = "True" /\ idx' = ResumeIdx
    /\ UNCHANGED <<state, disk, tmp, now, call, pre, lastSaved, bigFee, ops,
                   market, phase, cycle, log, audit>>

\* A ledger call with result r of the in-memory bookkeeping: a rejected call
\* returns False at once, an accepted one goes on to _save.
Invoke(c, r) ==
    /\ call' = c
    /\ pre' = [state |-> state, disk |-> disk, tmp |-> tmp]
    /\ state' = r.state
    /\ bigFee' = (bigFee \/ RGt(c.fee_rate, R(1)))
    /\ ops' = IF r.ok THEN ops + 1 ELSE ops
    /\ IF r.ok
       THEN pc' = "save_open" /\ ret' = "none" /\ idx' = idx
       ELSE pc' = ResumePc /\ ret' = "False" /\ idx' = ResumeIdx
    /\ log' = IF phase \in {"exit", "entry"}
               THEN Append(log, [op |-> c.op, asset |-> c.asset, ok |-> r.ok])
               ELSE log
    /\ audit' = IF r.ok /\ c.op = "buy"
                 THEN [audit EXCEPT
                          !.mem.fees = RAdd(@, RMul(RMul(c.qty, c.price), c.fee_rate)),
                          !.mem.clean = @ /\ ~Held(state, c.asset)]
                 ELSE audit
    /\ UNCHANGED <<disk, tmp, now, lastSaved>>

\* Any caller of the ledger: execute_buy(asset, price, qty, fee_rate)
CallBuy ==
    /\ pc = "ready"
    /\ ops < MaxOps
    /\ \E asset \in LedgerAssets, price \in Prices, qty \in Qtys,
          fee_rate \in FeeRates :
          Invoke([op |-> "buy", asset |-> asset, price |-> price, qty |-> qty,
                  fee_rate |-> fee_rate],
                 execute_buy(state, asset, price, qty, fee_rate, now))
    /\ UNCHANGED <<market, phase, cycle>>

\* Any caller of the ledger: execute_sell(asset, price, fee_rate)
CallSell ==
    /\ pc = "ready"
    /\ ops < MaxOps
    /\ \E asset \in LedgerAssets, price \in Prices, fee_rate \in FeeRates :
          Invoke([op |-> "sell", asset |-> asset, price |-> price,
                  qty |-> R(0), fee_rate |-> fee_rate],
                 execute_sell(state, asset, price, fee_rate, now))
    /\ UNCHANGED <<market, phase, cycle>>

\* The process is interrupted (killed, power cut); its memory is lost.
Crash ==
    /\ ~Stopped
    /\ pc' = "down"
    /\ state' = NoState
    /\ call' = NoCall
    /\ pre' = NoPre
    /\ ret' = "none"
    /\ market' = NoMarket
    /\ phase' = "none"
    /\ idx' = 0
    /\ log' = <<>>
    /\ audit' = [audit EXCEPT !.mem = NoAudit]
    /\ UNCHANGED <<disk, tmp, now, lastSaved, bigFee, ops, cycle>>

\* Mutation: the error is caught inside _save, which returns as if it had saved.
on_save_error_swallowed(p) == "save_done"

\* An OSError raised inside _save meets no try/except in _save, in
\* execute_buy / execute_sell, in _load_or_create (whose try covers the load
\* only) or in their callers: it ends the process.
on_save_error(p) == "down"

\* open(temp_file, 'w'), json.dump or os.replace raises an OSError (disk full,
\* permissions, ...): the statement the process is at has no effect.
SaveFails ==
    /\ pc \in {"save_open", "save_dump", "save_replace"}
    /\ pc' = on_save_error(pc)
    /\ ret' = "raise"
    /\ IF pc' = "down"
       THEN /\ state' = NoState
            /\ call' = NoCall
            /\ pre' = NoPre
            /\ market' = NoMarket
            /\ phase' = "none"
            /\ idx' = 0
            /\ log' = <<>>
       ELSE UNCHANGED <<state, call, pre, market, phase, idx, log>>
    /\ audit' = IF pc' = "down" THEN [audit EXCEPT !.mem = NoAudit] ELSE audit
    /\ UNCHANGED <<disk, tmp, now, lastSaved, bigFee, ops, cycle>>

Next ==
    \/ Start
    \/ SaveOpen
    \/ SaveDump
    \/ SaveReplace
    \/ Return
    \/ CallBuy
    \/ CallSell
    \/ Crash

Spec == Init /\ [][Next]_vars

\* The durable record is edited by hand, while no process runs, and no longer parses.
Tamper ==
    /\ pc = "down"
    /\ disk.kind # "garbage"
    /\ disk' = Garbage
    /\ UNCHANGED <<pc, state, tmp, now, call, pre, ret, lastSaved, bigFee, ops,
                   market, phase, idx, cycle, log, audit>>

NextTamper == Next \/ Tamper

SpecTamper == Init /\ [][NextTamper]_vars

\* fee_rate=0.0015, the default of execute_buy and execute_sell
default_fee_rate == Q(15, 10000)

\* initial_capital=10000.0, the default of PortfolioManager
default_initial_capital == R(10000)

\* Time passes while no process runs: datetime.now() returns a later instant.
Tick ==
    /\ pc = "down"
    /\ now < MaxClock
    /\ now' = now + 1
    /\ UNCHANGED <<pc, state, disk, tmp, call, pre, ret, lastSaved, bigFee, ops,
                   market, phase, idx, cycle, log, audit>>

\* The script of state_manager.py (lines 112-121): one process builds the
\* manager, buys BTC-USD unless it is held, sells it, and ends.  idx is the
\* statement the script is at.
script_asset == "BTC-USD"

script_buy_price == R(60000)

script_buy_qty == Q(5, 100)

script_sell_price == R(65000)

StartScript == Construct(default_initial_capital)

ScriptBegin ==
    /\ pc = "ready"
    /\ phase = "none"
    /\ cycle < MaxCycles
    /\ pc' = "script"
    /\ phase' = "script"
    /\ idx' = 1
    /\ cycle' = cycle + 1
    /\ UNCHANGED <<state, disk, tmp, now, call, pre, ret, lastSaved, bigFee, ops,
                   market, log, audit>>

\* line 117: the asset is held, the buy is skipped
ScriptSkipBuy ==
    /\ pc = "script" /\ idx = 1
    /\ Held(state, script_asset)
    /\ idx' = idx + 1
    /\ UNCHANGED <<pc, state, disk, tmp, now, call, pre, ret, lastSaved,
                   bigFee, ops, market, phase, cycle, log, audit>>

\* lines 117-118
ScriptBuy ==
    /\ pc = "script" /\ idx = 1
    /\ ~Held(state, script_asset)
    /\ Invoke([op |-> "buy", asset |-> script_asset, price |-> script_buy_price,
               qty |-> script_buy_qty, fee_rate |-> default_fee_rate],
              execute_buy(state, script_asset, script_buy_price,
                          script_buy_qty, default_fee_rate, now))
    /\ UNCHANGED <<market, phase, cycle>>

\* line 121
ScriptSell ==
    /\ pc = "script" /\ idx = 2
    /\ Invoke([op |-> "sell", asset |-> script_asset, price |-> script_sell_price,
               qty |-> R(0), fee_rate |-> default_fee_rate],
              execute_sell(state, script_asset, script_sell_price,
                           default_fee_rate, now))
    /\ UNCHANGED <<market, phase, cycle>>

\* the end of the script: the process ends
ScriptEnd ==
    /\ pc = "script" /\ idx = 3
    /\ pc' = "down"
    /\ state' = NoState
    /\ call' = NoCall
    /\ pre' = NoPre
    /\ ret' = "none"
    /\ phase' = "none"
    /\ idx' = 0
    /\ audit' = [audit EXCEPT !.mem = NoAudit]
    /\ UNCHANGED <<disk, tmp, now, lastSaved, bigFee, ops, market, cycle, log>>

NextScript ==
    \/ StartScript
    \/ ScriptBegin
    \/ ScriptSkipBuy
    \/ ScriptBuy
    \/ ScriptSell
    \/ ScriptEnd
    \/ SaveOpen
    \/ SaveDump
    \/ SaveReplace
    \/ Return
    \/ Crash
    \/ Tick

SpecScript == Init /\ [][NextScript]_vars

----------------------------------------------------------------------------
(* LiveDecisionEngine: the configuration of __init__ and the market data   *)
(* a cycle may be given.                                                   *)

assets == <<"BTC-USD", "ETH-USD", "SPY", "GC=F">>

risk_per_trade == Q(2, 100)

max_global_risk == Q(6, 100)

\* int(x) of a non-negative x
Trunc(x) == x.n \div x.d

max_positions == Trunc(RDiv(max_global_risk, risk_per_trade))

adx_threshold == R(25)

AssetSet == {assets[i] : i \in 1..Len(assets)}

Row(close, min_20, max_50, adx) ==
    [Close |-> close, Min_20 |-> min_20, Max_50 |-> max_50, ADX |-> adx]

\* Close above Max_50 with a strong ADX and the stop one unit below: the
\* sized buy costs, fee included, exactly half of the cash.
Breakout == Row(Q(50000, 2003), Q(47997, 2003), R(24), R(30))

\* Close under Min_20 and under Max_50: a held asset is sold, for exactly
\* the cash its entry had cost when bought on a Breakout row.
SupportBreak == Row(Q(50000, 1997), R(26), R(30), R(30))

\* Close between Min_20 and Max_50: nothing to do.
Quiet == Row(R(25), R(24), R(26), R(30))

\* Close above Max_50 but ADX not above 25.
Weak == Row(Q(50000, 2003), Q(47997, 2003), R(24), R(20))

\* Close above Max_50, strong ADX, but Min_20 above Close.
Degenerate == Row(Q(50000, 1997), R(26), R(24), R(30))

\* Close above Max_50, strong ADX, stop so near that the size is the cash cap.
Capped == Row(R(100), R(99), R(90), R(30))

\* Close above Max_50, strong ADX, the stop 10 under a close of 100: with a
\* cash of 10000 the size is 200 / 10 = 20.
Sized == Row(R(100), R(90), R(90), R(30))

\* Close above Max_50, strong ADX, Min_20 equal to Close.
ZeroRisk == Row(R(25), R(25), R(24), R(30))

\* Days on which the assets move together, but for one at most.
RegularDays ==
    {[a \in AssetSet |-> IF a = odd THEN row ELSE base] :
        odd \in AssetSet, row \in {Breakout, SupportBreak, Quiet},
        base \in {Breakout, SupportBreak, Quiet}}

SpecialDays ==
    {[a \in AssetSet |-> IF a = odd THEN row ELSE base] :
        odd \in AssetSet, row \in {Weak, Degenerate, Capped, ZeroRisk},
        base \in {Breakout, Quiet}}

\* df.empty for one asset: it gets no entry in market_data
PartialDays ==
    {[a \in AssetSet \ {odd} |-> base] :
        odd \in AssetSet, base \in {Breakout, SupportBreak}}

\* Only the first asset has data, with the signal of the sizing example.
SizedDays == {[a \in {assets[1]} |-> Sized]}

MarketDays == RegularDays \cup SpecialDays \cup PartialDays \cup SizedDays

\* market_data.items(): the assets with data, in the order of self.assets
Items(m) == SelectSeq(assets, LAMBDA a : a \in DOMAIN m)

\* Mutation: the entry pass looks at every asset, held or not.
get_position_ignored(st, asset) == FALSE

\* self.portfolio.get_position(asset), as a truth value
get_position(st, asset) == Held(st, asset)

\* Mutation: the cap is compared with > instead of >=.
cap_exceeded(st) == get_active_positions_count(st) > max_positions

cap_reached(st) == get_active_positions_count(st) >= max_positions

\* Mutation: the comparison with the support is the wrong way round.
support_held(data) == RGt(data.Close, data.Min_20)

\* line 81: if current_price < min_20
support_broken(data) == RLt(data.Close, data.Min_20)

\* Mutation: only a risk of exactly zero is refused.
risk_is_nonzero(risk_per_coin) == risk_per_coin # R(0)

\* line 108: if risk_per_coin > 0
risk_is_positive(risk_per_coin) == RGt(risk_per_coin, R(0))

----------------------------------------------------------------------------
(* LiveDecisionEngine: one process runs __init__, then one cycle of        *)
(* run_daily_execution, then ends.                                         *)

StartEngine == Construct(default_initial_capital)

AtAsset == idx <= Len(Items(market))

Asset == Items(market)[idx]

Data == market[Asset]

\* A step of a pass that calls nothing: on to the next asset.
NextAsset ==
    /\ idx' = idx + 1
    /\ UNCHANGED <<pc, state, disk, tmp, now, call, pre, ret, lastSaved,
                   bigFee, ops, market, phase, cycle, log, audit>>

\* line 71: market_data = self.fetch_market_data()
Fetch ==
    /\ pc = "ready"
    /\ cycle < MaxCycles
    /\ \E m \in MarketDays : market' = m
    /\ pc' = "exit"
    /\ phase' = "exit"
    /\ idx' = 1
    /\ cycle' = cycle + 1
    /\ UNCHANGED <<state, disk, tmp, now, call, pre, ret, lastSaved, bigFee, ops, log,
                   audit>>

\* lines 74-75: the asset is not held, the exit pass has nothing to watch
ExitNotHeld ==
    /\ pc = "exit" /\ AtAsset
    /\ ~get_position(state, Asset)
    /\ NextAsset

\* lines 75-81: held, and the close is not under the support
ExitHold ==
    /\ pc = "exit" /\ AtAsset
    /\ get_position(state, Asset)
    /\ ~support_broken(Data)
    /\ NextAsset

\* lines 81-83: held, and the close broke the support: sell
ExitSell ==
    /\ pc = "exit" /\ AtAsset
    /\ get_position(state, Asset)
    /\ support_broken(Data)
    /\ Invoke([op |-> "sell", asset |-> Asset, price |-> Data.Close,
               qty |-> R(0), fee_rate |-> default_fee_rate],
              execute_sell(state, Asset, Data.Close, default_fee_rate, now))
    /\ UNCHANGED <<market, phase, cycle>>

\* line 86: the first loop is exhausted, the second starts
ExitDone ==
    /\ pc = "exit" /\ ~AtAsset
    /\ pc' = "entry"
    /\ phase' = "entry"
    /\ idx' = 1
    /\ UNCHANGED <<state, disk, tmp, now, call, pre, ret, lastSaved, bigFee,
                   ops, market, cycle, log, audit>>

\* line 87: the asset is held, the entry pass skips it
EntryHeld ==
    /\ pc = "entry" /\ AtAsset
    /\ get_position(state, Asset)
    /\ NextAsset

\* lines 93-95: the position cap is reached, the signal is ignored
EntryCapReached ==
    /\ pc = "entry" /\ AtAsset
    /\ ~get_position(state, Asset)
    /\ cap_reached(state)
    /\ NextAsset

\* lines 118-120: the close is not above the 50-day high
EntryBelowResistance ==
    /\ pc = "entry" /\ AtAsset
    /\ ~get_position(state, Asset)
    /\ ~cap_reached(state)
    /\ ~RGt(Data.Close, Data.Max_50)
    /\ NextAsset

\* lines 115-116: a breakout with a weak ADX is filtered
EntryFiltered ==
    /\ pc = "entry" /\ AtAsset
    /\ ~get_position(state, Asset)
    /\ ~cap_reached(state)
    /\ RGt(Data.Close, Data.Max_50)
    /\ ~RGt(Data.ADX, adx_threshold)
    /\ NextAsset

\* lines 103-108: the stop is not under the entry price, nothing is bought
EntryRefused ==
    /\ pc = "entry" /\ AtAsset
    /\ ~get_position(state, Asset)
    /\ ~cap_reached(state)
    /\ RGt(Data.Close, Data.Max_50)
    /\ RGt(Data.ADX, adx_threshold)
    /\ ~risk_is_positive(RSub(Data.Close, Data.Min_20))
    /\ NextAsset

\* lines 103-114: the position is sized and execute_buy is called
EntryBuy ==
    /\ pc = "entry" /\ AtAsset
    /\ ~get_position(state, Asset)
    /\ ~cap_reached(state)
    /\ RGt(Data.Close, Data.Max_50)
    /\ RGt(Data.ADX, adx_threshold)
    /\ LET current_price == Data.Close
           stop_price == Data.Min_20
           portfolio_value == get_cash(state)
           risk_amount == RMul(portfolio_value, risk_per_trade)
           risk_per_coin == RSub(current_price, stop_price)
       IN  /\ risk_is_positive(risk_per_coin)
           /\ LET max_qty == RDiv(get_cash(state), current_price)
                  qty == RMin(RDiv(risk_amount, risk_per_coin), max_qty)
              IN  Invoke([op |-> "buy", asset |-> Asset, price |-> current_price,
                          qty |-> qty, fee_rate |-> default_fee_rate],
                         execute_buy(state, Asset, current_price, qty,
                                     default_fee_rate, now))
    /\ UNCHANGED <<market, phase, cycle>>

\* lines 123-124: the dashboard is drawn from the state, the process ends
Finish ==
    /\ pc = "entry" /\ ~AtAsset
    /\ pc' = "down"
    /\ state' = NoState
    /\ call' = NoCall
    /\ pre' = NoPre
    /\ ret' = "none"
    /\ market' = NoMarket
    /\ phase' = "none"
    /\ idx' = 0
    /\ log' = <<>>
    /\ audit' = [audit EXCEPT !.mem = NoAudit]
    /\ UNCHANGED <<disk, tmp, now, lastSaved, bigFee, ops, cycle>>

NextLoop ==
    \/ StartEngine
    \/ SaveOpen
    \/ SaveDump
    \/ SaveReplace
    \/ Return
    \/ Fetch
    \/ ExitNotHeld
    \/ ExitHold
    \/ ExitSell
    \/ ExitDone
    \/ EntryHeld
    \/ EntryCapReached
    \/ EntryBelowResistance
    \/ EntryFiltered
    \/ EntryRefused
    \/ EntryBuy
    \/ Finish
    \/ Crash
    \/ SaveFails

SpecLoop == Init /\ [][NextLoop]_vars

----------------------------------------------------------------------------
(* Helpers of the properties.                                              *)

IsPrefix(s, t) == Len(s) <= Len(t) /\ SubSeq(t, 1, Len(s)) = s

TotalOf(c) == RAdd(RMul(c.qty, c.price), RMul(RMul(c.qty, c.price), c.fee_rate))

Returned(op, r) == pc = "ready" /\ call.op = op /\ ret = r

----------------------------------------------------------------------------
(* C1 as stated: over every sequence of execute_buy and execute_sell calls *)
(* with positive price, positive quantity and fee_rate >= 0, the cash      *)
(* balance, in memory and in the durable record, is never negative.        *)
C1_CashNeverNegative ==
    /\ RGe(state.cash, R(0))
    /\ RGe(Rec(disk).cash, R(0))

(* C1 amended: as long as every call so far passed a fee_rate in [0, 1],   *)
(* the cash balance, in memory and in the durable record, is not negative. *)
C1_CashNeverNegativeFeeAtMostOne ==
    ~bigFee => (RGe(state.cash, R(0)) /\ RGe(Rec(disk).cash, R(0)))

\* A buy that spends the whole balance has been accepted: cash is exactly 0.
C1_Witness ==
    /\ ~bigFee
    /\ Returned("buy", "True")
    /\ RGt(pre.state.cash, R(0))
    /\ state.cash = R(0)

(* C2: when execute_buy or execute_sell has returned success, the durable  *)
(* record holds exactly the in-memory state that results from the call,    *)
(* and the staging file has been consumed by the replace.                  *)
C2_SuccessIsDurable ==
    (pc \in {"ready", "save_done"} /\ call.op \in {"buy", "sell"} /\ ret # "False")
        => (disk = Json(state) /\ tmp = Absent /\ state # pre.state)

C2_Witness ==
    /\ Returned("sell", "True")
    /\ Len(Rec(disk).history) = 1
    /\ Rec(pre.disk).history = <<>>

(* C3: whatever the point at which a process is interrupted, the durable   *)
(* record is absent or is the complete state handed to the last _save that *)
(* reached its replace; it is never a partially written record.            *)
C3_DurableIsComplete ==
    /\ disk.kind \in {"absent", "json"}
    /\ disk = (IF lastSaved.kind = "saved" THEN Json(lastSaved.rec) ELSE Absent)

\* A process was stopped while it wrote the staging file; the record is whole.
C3_Witness ==
    /\ pc = "down"
    /\ tmp.kind = "partial"
    /\ disk.kind = "json"

(* C4: when the durable record exists but does not parse, starting the    *)
(* process ends in the fatal stop: no state is returned, no fresh          *)
(* portfolio is built, and neither file is written.  The fatal stop        *)
(* happens for no other reason.                                            *)
C4_CorruptRecordIsFatal ==
    [][/\ (Stopped /\ disk.kind = "garbage") =>
              /\ pc' \in {pc, "fatal"}
              /\ state' = NoState
              /\ disk' = disk
              /\ tmp' = tmp
       /\ (pc # "fatal" /\ pc' = "fatal") => disk.kind = "garbage"
      ]_vars

\* A ledger with an open position was saved, then corrupted; the load stopped.
C4_Witness ==
    /\ pc = "fatal"
    /\ disk = Garbage
    /\ lastSaved.kind = "saved"
    /\ lastSaved.rec.positions # EmptyPositions

(* C5: a rejected call changes nothing.  A buy is rejected exactly when    *)
(* quantity*price*(1+fee_rate) > cash, a sell exactly when the asset has   *)
(* no open position, and after the rejected return the state, the durable  *)
(* record and the staging file are what they were at the call.             *)
C5_RejectedChangesNothing ==
    /\ ret = "False" =>
          (state = pre.state /\ disk = pre.disk /\ tmp = pre.tmp)
    /\ call.op = "buy" =>
          ((ret = "False") <=> RGt(TotalOf(call), pre.state.cash))
    /\ call.op = "sell" =>
          ((ret = "False") <=> ~Held(pre.state, call.asset))

\* A buy was rejected for insufficient funds although some cash was left.
C5_Witness ==
    /\ Returned("buy", "False")
    /\ RGt(state.cash, R(0))
    /\ state.positions # EmptyPositions

(* C6: under the decision loop the number of open positions, in memory   *)
(* and in the durable record, never exceeds max_positions, and every       *)
(* execute_buy of the entry pass is called with fewer than max_positions   *)
(* positions open.                                                         *)
C6_PositionCap ==
    /\ get_active_positions_count(state) <= max_positions
    /\ get_active_positions_count(Rec(disk)) <= max_positions
    /\ call.op = "buy" => get_active_positions_count(pre.state) < max_positions

\* Three positions are open and the entry pass has gone past the fourth
\* asset, which had a valid breakout and was not bought.
C6_Witness ==
    /\ pc = "entry"
    /\ idx = Len(assets) + 1
    /\ get_active_positions_count(state) = max_positions
    /\ DOMAIN market = AssetSet
    /\ market[assets[Len(assets)]] = Breakout
    /\ ~Held(state, assets[Len(assets)])

(* C7: the decision loop never calls execute_buy for an asset that has an  *)
(* open position: the positions held at the call do not include the asset  *)
(* bought, so the buy adds a position and overwrites none.                 *)
C7_NoBuyOfHeldAsset ==
    call.op = "buy" =>
        /\ ~Held(pre.state, call.asset)
        /\ \A a \in DOMAIN pre.state.positions :
               Held(state, a) /\ state.positions[a] = pre.state.positions[a]

\* In the second cycle the first asset, held since the first cycle, shows a
\* breakout again; the entry pass went past it and its position is as bought.
C7_Witness ==
    /\ cycle = 2
    /\ pc = "entry"
    /\ idx = 2
    /\ DOMAIN market = AssetSet
    /\ market[assets[1]] = Breakout
    /\ Held(state, assets[1])
    /\ state.positions[assets[1]].qty = R(200)

(* C8: after a successful execute_buy(asset, price, quantity, fee_rate)    *)
(* cash has decreased by quantity*price + quantity*price*fee_rate, the     *)
(* asset's position is {quantity, price} (replacing any prior one), the    *)
(* position count grew by 1 if the asset was not held and is unchanged     *)
(* otherwise, and the other positions and the history are unchanged.       *)
C8_BuyPostcondition ==
    (call.op = "buy" /\ ret = "True") =>
        /\ state.cash = RSub(pre.state.cash, TotalOf(call))
        /\ Held(state, call.asset)
        /\ state.positions[call.asset].qty = call.qty
        /\ state.positions[call.asset].entry_price = call.price
        /\ get_active_positions_count(state) =
               get_active_positions_count(pre.state)
                   + (IF Held(pre.state, call.asset) THEN 0 ELSE 1)
        /\ DOMAIN state.positions = DOMAIN pre.state.positions \cup {call.asset}
        /\ \A a \in DOMAIN pre.state.positions :
               a # call.asset => state.positions[a] = pre.state.positions[a]
        /\ state.history = pre.state.history

\* A buy of an asset already held, at another price, beside another position.
C8_Witness ==
    /\ Returned("buy", "True")
    /\ Held(pre.state, call.asset)
    /\ pre.state.positions[call.asset].entry_price # call.price
    /\ get_active_positions_count(state) = 2

(* C9: after a successful execute_sell(asset, price, fee_rate) of a        *)
(* position {quantity, entry_price} the asset has no position, exactly one *)
(* trade was appended to the history with that asset, entry_price,         *)
(* exit_price = price and pnl = quantity*price*(1-fee_rate) -              *)
(* quantity*entry_price, cash has increased by quantity*price*(1-fee_rate) *)
(* and every other position is unchanged.                                  *)
C9_SellPostcondition ==
    (call.op = "sell" /\ ret = "True") =>
        LET position == pre.state.positions[call.asset]
            net == RMul(RMul(position.qty, call.price),
                        RSub(R(1), call.fee_rate))
            trade == state.history[Len(state.history)]
        IN  /\ ~Held(state, call.asset)
            /\ Len(state.history) = Len(pre.state.history) + 1
            /\ SubSeq(state.history, 1, Len(pre.state.history)) = pre.state.history
            /\ trade.asset = call.asset
            /\ trade.entry_price = position.entry_price
            /\ trade.exit_price = call.price
            /\ trade.pnl_net = RSub(net, RMul(position.qty, position.entry_price))
            /\ state.cash = RAdd(pre.state.cash, net)
            /\ DOMAIN state.positions = DOMAIN pre.state.positions \ {call.asset}
            /\ \A a \in DOMAIN state.positions :
                   state.positions[a] = pre.state.positions[a]

\* A sale with a fee, at a price other than the entry, beside another position.
C9_Witness ==
    /\ Returned("sell", "True")
    /\ call.fee_rate = Q(1, 2)
    /\ state.history[1].entry_price # call.price
    /\ get_active_positions_count(state) = 1

(* C10: the history is append-only.  Within a process every step keeps the *)
(* history as a prefix of the next one, and only the bookkeeping of an     *)
(* accepted execute_sell lengthens it, by one; the history of the durable  *)
(* record only ever grows by appending; a reload returns the durable       *)
(* history as it is.                                                       *)
C10_HistoryAppendOnly ==
    [][/\ (~Stopped /\ pc' # "down") =>
              /\ IsPrefix(state.history, state'.history)
              /\ Len(state'.history) <= Len(state.history) + 1
              /\ Len(state'.history) = Len(state.history) + 1 =>
                     (call'.op = "sell" /\ pc' = "save_open")
       /\ disk' # disk => IsPrefix(Rec(disk).history, Rec(disk').history)
       /\ (Stopped /\ pc' = "ready") => state'.history = Rec(disk).history
      ]_vars

\* A buy accepted after a sale, then persisted: the trade is still there.
C10_Witness ==
    /\ Returned("buy", "True")
    /\ Len(pre.state.history) = 1
    /\ state.history = pre.state.history
    /\ Rec(disk).history = pre.state.history

(* C11: a state handed to _save and then loaded by a later process is the  *)
(* same state: when a process starts on a durable record that parses, it   *)
(* gets exactly the state_dict of the last completed _save (cash,          *)
(* positions, history and last_updated, whatever the instant of the load), *)
(* it is ready at once, and neither file is written by the load; the text  *)
(* json.dump writes for a state parses back to that state.                 *)
C11_RoundTrip ==
    [][/\ (Stopped /\ disk.kind = "json" /\ pc' # pc) =>
              /\ pc' = "ready"
              /\ state' = lastSaved.rec
              /\ disk' = disk
              /\ tmp' = tmp
       /\ state' # state => json_load(json_dump(state')) = state'
      ]_vars

\* A process has just loaded, at a later instant, a record with an open
\* position and a closed trade.
C11_Witness ==
    /\ pc = "ready"
    /\ call = NoCall
    /\ state.positions # EmptyPositions
    /\ Len(state.history) = 1
    /\ state.positions[script_asset].entry_date < now
    /\ disk = Json(state)

C14_DegenerateRiskRefused ==
    [][/\ (/\ pc = "entry" /\ AtAsset
           /\ ~Held(state, Asset)
           /\ get_active_positions_count(state) < max_positions
           /\ RGt(Data.Close, Data.Max_50)
           /\ RGt(Data.ADX, R(25))
           /\ RGe(Data.Min_20, Data.Close)) =>
              \/ pc' = "down"
              \/ /\ pc' = "entry" /\ idx' = idx + 1
                 /\ state' = state /\ disk' = disk /\ tmp' = tmp
                 /\ call' = call /\ market' = market
       /\ call'.op = "buy" =>
              RGt(call'.price, market'[call'.asset].Min_20)
      ]_vars

\* The first asset showed a breakout with its stop at the close and was
\* left alone; the pass went on and bought the second asset.
C14_Witness ==
    /\ DOMAIN market = AssetSet
    /\ market[assets[1]] = ZeroRisk
    /\ market[assets[2]] = Breakout
    /\ ~Held(state, assets[1])
    /\ call.op = "buy" /\ call.asset = assets[2] /\ ret = "True"
    /\ Held(state, assets[2])

\* The realized PnL a returned value carries: none for a bare flag.
ReportedPnl(r) ==
    IF r \in {"none", "True", "False"} THEN {} ELSE {r.realized_pnl}

\* The realized PnL of the sale in call, from the position it closed.
RealizedPnl ==
    LET position == pre.state.positions[call.asset]
        gross == RMul(position.qty, call.price)
        net == RSub(gross, RMul(gross, call.fee_rate))
    IN  RSub(net, RMul(position.qty, position.entry_price))

(* C15 as stated: the value a successful execute_sell returns carries the  *)
(* realized PnL, net - quantity*entry_price, of the position it closed.    *)
C15_SellReportsPnl ==
    (call.op = "sell" /\ ret \notin {"none", "False"}) =>
        ReportedPnl(ret) = {RealizedPnl}

(* C15 amended: a successful execute_sell returns the bare flag True; the  *)
(* realized PnL, net - quantity*entry_price, of the position it closed is  *)
(* the pnl_net of the trade it appended to the history, in memory and in   *)
(* the durable record, and is not part of the returned value.              *)
C15_SellReturnsFlagRecordsPnl ==
    (call.op = "sell" /\ ret \notin {"none", "False"}) =>
        /\ ret = "True"
        /\ ReportedPnl(ret) = {}
        /\ state.history[Len(state.history)].pnl_net = RealizedPnl
        /\ Rec(disk).history = state.history

\* A sale at a loss, with a fee, has returned.
C15_Witness ==
    /\ Returned("sell", "True")
    /\ RGt(call.fee_rate, R(0))
    /\ RLt(state.history[Len(state.history)].pnl_net, R(0))
    /\ RLt(call.price, state.history[Len(state.history)].entry_price)

(* C16: within a decision cycle no execute_sell comes after an             *)
(* execute_buy, and when the entry pass calls execute_buy the exit pass is *)
(* over for every asset: no asset with data is still held with its close   *)
(* under its support, so the count the cap check reads is the count after  *)
(* all the exits of the cycle.                                             *)
C16_ExitsBeforeEntries ==
    /\ \A i, j \in 1..Len(log) :
           i < j => ~(log[i].op = "buy" /\ log[j].op = "sell")
    /\ call.op = "buy" =>
           /\ \A a \in DOMAIN market :
                  Held(pre.state, a) => ~RLt(market[a].Close, market[a].Min_20)
           /\ \A i \in 1..Len(log) :
                  (log[i].op = "sell" /\ log[i].ok) => ~Held(pre.state, log[i].asset)

\* Three positions were open; the exit pass sold the second asset, and the
\* entry pass then bought the first one, which comes earlier in the list.
C16_Witness ==
    /\ Len(log) = 2
    /\ log[1] = [op |-> "sell", asset |-> assets[2], ok |-> TRUE]
    /\ log[2] = [op |-> "buy", asset |-> assets[1], ok |-> TRUE]
    /\ ret = "True"
    /\ get_active_positions_count(pre.state) = max_positions - 1
    /\ get_active_positions_count(state) = max_positions

(* C19: a decision cycle never calls both execute_sell and execute_buy for *)
(* an asset whose Min_20 is at or under its Max_50: an asset the exit pass *)
(* closed is passed over by the entry pass of the same cycle.              *)
C19_NoReentryInCycle ==
    \A i, j \in 1..Len(log) :
        (/\ log[i].op = "sell" /\ log[j].op = "buy"
         /\ log[i].asset = log[j].asset) =>
            RGt(market[log[i].asset].Min_20, market[log[i].asset].Max_50)

\* The exit pass sold the first asset; the entry pass saw it not held, under
\* the cap, and went past it without a call.
C19_Witness ==
    /\ pc = "entry"
    /\ idx = 2
    /\ log = <<[op |-> "sell", asset |-> assets[1], ok |-> TRUE]>>
    /\ ~Held(state, assets[1])
    /\ ~RGt(market[assets[1]].Min_20, market[assets[1]].Max_50)
    /\ get_active_positions_count(state) < max_positions

(* C17: when a statement of _save raises an I/O error, the call that was   *)
(* saving does not return: the process is over, so no later call works on  *)
(* the state that was not persisted, and the durable record is the state   *)
(* of the last _save that completed (absent if there was none).            *)
C17_SaveFailureIsFatal ==
    ret = "raise" =>
        /\ pc = "down"
        /\ state = NoState
        /\ disk = (IF lastSaved.kind = "saved" THEN Json(lastSaved.rec) ELSE Absent)

\* os.replace failed in the save of a buy: the staging file holds the new
\* position, the durable record does not, and the process is over.
C17_Witness ==
    /\ ret = "raise"
    /\ pc = "down"
    /\ tmp.kind = "json"
    /\ disk.kind = "json"
    /\ Rec(tmp).positions # EmptyPositions
    /\ Rec(disk).positions = EmptyPositions

(* C18: when the decision loop sizes a buy at the cash cap, quantity =     *)
(* cash / Close, with some cash and the default fee rate, execute_buy      *)
(* rejects it, because quantity*Close*(1 + fee_rate) exceeds the cash: no  *)
(* position is opened and the state and the durable record are unchanged.  *)
C18_CappedBuyRejected ==
    (/\ call.op = "buy"
     /\ RGt(pre.state.cash, R(0))
     /\ RGt(call.fee_rate, R(0))
     /\ call.qty = RDiv(pre.state.cash, call.price)) =>
        /\ ret = "False"
        /\ RGt(TotalOf(call), pre.state.cash)
        /\ state = pre.state
        /\ disk = pre.disk
        /\ ~Held(state, call.asset)

\* A valid signal with the stop 1% under the close: the buy was sized at
\* the cap and rejected, and the entry pass went on.
C18_Witness ==
    /\ pc = "entry"
    /\ call.op = "buy" /\ ret = "False"
    /\ market[call.asset] = Capped
    /\ call.qty = RDiv(state.cash, call.price)
    /\ RGt(state.cash, R(0))
    /\ call.fee_rate = default_fee_rate

\* The sum of the pnl_net of the closed trades of a history.
RECURSIVE TotalPnl(_)
TotalPnl(history) ==
    IF history = <<>> THEN R(0)
    ELSE RAdd(history[1].pnl_net, TotalPnl(Tail(history)))

\* A portfolio with no open position, none of whose buys replaced a position,
\* has moved from its initial capital by the sum of the recorded PnLs less
\* the sum of the entry fees; b is the book kept for the portfolio st.
Reconciles(st, b) ==
    (st.positions = EmptyPositions /\ b.clean) =>
        RSub(st.cash, b.initial) = RSub(TotalPnl(st.history), b.fees)

====
